---- MODULE Spec2Model ----
(***************************************************************************)
(* The beanstalkd wire-protocol engine of bsc (workspace/core): the        *)
(* command encoder, the primitive matchers, the reply recognizers, the     *)
(* one-shot decoder atomic_parse and the draining decoder parse.           *)
(*                                                                         *)
(* A byte is a one-character string and a byte slice (&[u8]) is a string:  *)
(* Len, SubSeq and \o are the slice operations.  A u64 that was decoded    *)
(* from text is held as its canonical decimal numeral (no leading zeros),  *)
(* so that the 64-bit limit of str::parse::<u64> is kept exactly.          *)
(***************************************************************************)
EXTENDS Integers, Sequences, FiniteSets, TLC

VARIABLES
  frames,   \* the complete reply frames the peer wrote, in order
  frag,     \* the bytes the peer wrote after them (a partial frame, garbage, or nothing)
  buf,      \* the read buffer handed to the decoder
  held,     \* what the caller's Vec<Msg> held before the call
  msgs,     \* the Msg values decoded so far, in order
  res,      \* the Result the last call returned
  cmd,      \* the Cmd value handed to the encoder
  out,      \* the Vec<u8> the encoder returned
  op,       \* which entry point has run: "init", "atomic_parse", "parse", "encode", ..
  calls,    \* the commands of the client operations started, in order
  sent,     \* the bytes the TcpStream has accepted from the client
  wire,     \* the bytes on their way from the peer to the client
  rbuf,     \* what handle_response's BufReader has read ahead
  peer      \* "open", or "closed" once the peer has shut the stream

vars == <<frames, frag, buf, held, msgs, res, cmd, out, op, calls, sent, wire, rbuf, peer>>

\* the state of a BeanstalkClient and of its connection
client == <<calls, sent, wire, rbuf, peer>>

\* no client is connected
NoClient ==
  /\ calls = <<>>
  /\ sent = ""
  /\ wire = ""
  /\ rbuf = ""
  /\ peer = "open"

----------------------------------------------------------------------------
(* Slices *)

\* &buf[n..]
From(b, n) == SubSeq(b, n + 1, Len(b))

\* &buf[..n]
UpTo(b, n) == SubSeq(b, 1, n)

\* buf[i] (1-based)
At(b, i) == SubSeq(b, i, i)

Bytes(s) == {At(s, i) : i \in 1..Len(s)}

----------------------------------------------------------------------------
(* types.rs: R<'a, O> = Result<(&[u8], O), (&[u8], ErrorKind)> *)

ErrorKind == {"Integer", "Float", "NotUTF8", "NotMatched", "EOF"}

\* the value slot of a failed result
Nothing == [tag |-> "Nothing", args |-> <<>>]

Ok(i, v) == [isOk |-> TRUE, rest |-> i, val |-> v, kind |-> "Ok"]

Err(i, k) == [isOk |-> FALSE, rest |-> i, val |-> Nothing, kind |-> k]

\* an error handed on as it is
Fail(r) == Err(r.rest, r.kind)

\* the `?` operator, `let (i, x) = step?; then`: a failed step's error is
\* returned as it is, a successful one is handed to what follows
\* (the step's result is bound to v once, as the `let` binds it, and not
\* recomputed at each use)
Bind(r, then(_)) ==
  CHOOSE x \in {IF v.isOk THEN then(v) ELSE Fail(v) : v \in {r}} : TRUE

\* `if let Ok((i, x)) = step { then } else { otherwise }`
IfLetOk(r, then(_), otherwise) ==
  CHOOSE x \in {IF v.isOk THEN then(v) ELSE otherwise : v \in {r}} : TRUE

----------------------------------------------------------------------------
(* protocol.rs: enum Msg *)

Inserted(id) == [tag |-> "Inserted", args |-> <<id>>]
Buried(o) == [tag |-> "Buried", args |-> o]
Using(name) == [tag |-> "Using", args |-> <<name>>]
Reserved(id, data) == [tag |-> "Reserved", args |-> <<id, data>>]
Watching(count) == [tag |-> "Watching", args |-> <<count>>]
Found(id, data) == [tag |-> "Found", args |-> <<id, data>>]
Kicked(o) == [tag |-> "Kicked", args |-> o]
OkMsg(data) == [tag |-> "Ok", args |-> <<data>>]
Unit(tag) == [tag |-> tag, args |-> <<>>]

\* Option<u64>
None == <<"None">>
Some(n) == <<"Some", n>>

----------------------------------------------------------------------------
(* Decimal text *)

Digits == Bytes("0123456789")

DigitVal(d) ==
  CASE d = "0" -> 0 [] d = "1" -> 1 [] d = "2" -> 2 [] d = "3" -> 3 [] d = "4" -> 4
    [] d = "5" -> 5 [] d = "6" -> 6 [] d = "7" -> 7 [] d = "8" -> 8 [] d = "9" -> 9

DigitChar(n) == At("0123456789", n + 1)

\* format!("{}", n) of an unsigned integer
RECURSIVE ToDecimal(_)
ToDecimal(n) == IF n < 10 THEN DigitChar(n) ELSE ToDecimal(n \div 10) \o DigitChar(n % 10)

\* the numeral without its leading zeros ("007" is 7, "000" is 0)
RECURSIVE Canonical(_)
Canonical(s) == IF Len(s) > 1 /\ At(s, 1) = "0" THEN Canonical(From(s, 1)) ELSE s

\* a < b for two numerals of the same length
RECURSIVE NumeralLess(_, _)
NumeralLess(a, b) ==
  IF Len(a) = 0 THEN FALSE
  ELSE IF At(a, 1) # At(b, 1) THEN DigitVal(At(a, 1)) < DigitVal(At(b, 1))
  ELSE NumeralLess(From(a, 1), From(b, 1))

\* u64::MAX
U64Max == "18446744073709551615"

\* str::parse::<u64>() succeeds: the value is at most u64::MAX
FitsU64(s) ==
  LET c == Canonical(s) IN
    \/ Len(c) < Len(U64Max)
    \/ Len(c) = Len(U64Max) /\ ~NumeralLess(U64Max, c)

RECURSIVE NatOf(_)
NatOf(s) == IF Len(s) = 0 THEN 0 ELSE NatOf(UpTo(s, Len(s) - 1)) * 10 + DigitVal(At(s, Len(s)))

\* `len as usize`: the count as a number; a count of ten or more digits
\* is longer than every buffer here and is held as the largest nine-digit one
AsUsize(n) == IF Len(n) > 9 THEN NatOf("999999999") ELSE NatOf(n)

----------------------------------------------------------------------------
(* parser.rs: the primitive matchers *)

char(b, c) ==
  IF Len(b) = 0 THEN Err(b, "EOF")
  ELSE IF At(b, 1) = c THEN Ok(From(b, 1), c)
  ELSE Err(b, "NotMatched")

crlf(b) ==
  Bind(char(b, "\r"), LAMBDA r1 :
  Bind(char(r1.rest, "\n"), LAMBDA r2 :
  Ok(r2.rest, "")))

space(b) ==
  Bind(char(b, " "), LAMBDA r1 :
  Ok(r1.rest, ""))

\* chars without the comparison of the bytes
chars_LengthOnly(b, value) ==
  IF Len(b) = 0 THEN Err(b, "EOF")
  ELSE IF Len(b) < Len(value) THEN Err(b, "NotMatched")
  ELSE Ok(From(b, Len(value)), UpTo(b, Len(value)))

chars(b, value) ==
  IF Len(b) = 0 THEN Err(b, "EOF")
  ELSE IF Len(b) < Len(value) THEN Err(b, "NotMatched")
  ELSE IF value = UpTo(b, Len(value)) THEN Ok(From(b, Len(value)), UpTo(b, Len(value)))
  ELSE Err(b, "NotMatched")

is_ascii_digit == Digits

is_ascii_alphabetic == Bytes("ABCDEFGHIJKLMNOPQRSTUVWXYZabcdefghijklmnopqrstuvwxyz")

is_ascii_alphanumeric == is_ascii_alphabetic \cup is_ascii_digit

\* u8::is_ascii_whitespace: space, tab, line feed, form feed, carriage return
is_ascii_whitespace == Bytes(" \t\n\f\r")

\* the loop `while idx < buf.len() && func(buf[idx]) == want { idx += 1 }`,
\* with the predicate func given as the set of bytes it accepts
RECURSIVE Run(_, _, _, _)
Run(b, func, want, idx) ==
  IF idx < Len(b) /\ ((At(b, idx + 1) \in func) = want)
  THEN Run(b, func, want, idx + 1)
  ELSE idx

take_while(b, func) ==
  IF Len(b) = 0 THEN Err(b, "EOF")
  ELSE LET idx == Run(b, func, TRUE, 0) IN
    IF idx # 0 THEN Ok(From(b, idx), UpTo(b, idx)) ELSE Err(b, "NotMatched")

take_until(b, func) ==
  IF Len(b) = 0 THEN Err(b, "EOF")
  ELSE LET idx == Run(b, func, FALSE, 0) IN
    IF idx # 0 THEN Ok(From(b, idx), UpTo(b, idx)) ELSE Err(b, "NotMatched")

\* take that stops at the first CR instead of counting len bytes
take_ToCr(b, len) ==
  IF Len(b) = 0 THEN Err(b, "EOF")
  ELSE Ok(From(b, Run(b, {"\r"}, FALSE, 0)), UpTo(b, Run(b, {"\r"}, FALSE, 0)))

take(b, len) ==
  IF Len(b) = 0 THEN Err(b, "EOF")
  ELSE IF Len(b) >= len THEN Ok(From(b, len), UpTo(b, len))
  ELSE Err(b, "NotMatched")

\* u64 that keeps the low 19 digits of a run that does not fit (a wrapped value)
u64_Wrapping(b) ==
  IF Len(b) = 0 THEN Err(b, "EOF")
  ELSE LET idx == Run(b, is_ascii_digit, TRUE, 0) IN
    IF idx # 0
    THEN IF FitsU64(UpTo(b, idx))
         THEN Ok(From(b, idx), Canonical(UpTo(b, idx)))
         ELSE Ok(From(b, idx), Canonical(SubSeq(b, idx - 18, idx)))
    ELSE Err(b, "NotMatched")

u64(b) ==
  IF Len(b) = 0 THEN Err(b, "EOF")
  ELSE LET idx == Run(b, is_ascii_digit, TRUE, 0) IN
    IF idx # 0
    THEN IF FitsU64(UpTo(b, idx))
         THEN Ok(From(b, idx), Canonical(UpTo(b, idx)))
         ELSE Err(b, "Integer")
    ELSE Err(b, "NotMatched")

lf(b) ==
  Bind(char(b, "\n"), LAMBDA r1 :
  Ok(r1.rest, ""))

\* take_while(buf, is_ascii_alphanumeric), the bytes handed on as a &str
string(b) ==
  Bind(take_while(b, is_ascii_alphanumeric), LAMBDA r1 :
  Ok(r1.rest, r1.val))

\* a bool is held as the text of its literal
bool(b) ==
  IfLetOk(chars(b, "true"), LAMBDA r1 : Ok(r1.rest, "true"),
  IfLetOk(chars(b, "false"), LAMBDA r2 : Ok(r2.rest, "false"),
  Err(b, "NotMatched")))

(* types.rs: enum Scalar *)

ScalarString(s) == [tag |-> "String", args |-> <<s>>]
ScalarInteger(n) == [tag |-> "Integer", args |-> <<n>>]
ScalarFloat(f) == [tag |-> "Float", args |-> <<f>>]
ScalarBool(t) == [tag |-> "Bool", args |-> <<t>>]

\* the fraction digits without their trailing zeros ("50" is "5", "00" is "0")
RECURSIVE Fraction(_)
Fraction(t) ==
  IF Len(t) > 1 /\ At(t, Len(t)) = "0" THEN Fraction(UpTo(t, Len(t) - 1)) ELSE t

\* val.parse::<f64>() of the text head "." tail: the f64 is held as the
\* decimal it denotes, integer part and fraction without trailing zeros
\* (exact as long as the literal has no more digits than an f64 keeps)
ParseF64(head, tail) == Canonical(head) \o "." \o Fraction(tail)

\* head.to_string(), '.', tail.to_string() of the two decoded u64, parsed
\* as f64; the text is digits '.' digits, which str::parse::<f64> accepts
number(b) ==
  IF Len(b) = 0 THEN Err(b, "EOF")
  ELSE
    Bind(u64(b), LAMBDA r1 :
    IfLetOk(char(r1.rest, "."),
      LAMBDA r2 :
        Bind(u64(r2.rest), LAMBDA r3 :
        Ok(r3.rest, ScalarFloat(ParseF64(r1.val, r3.val)))),
      Ok(r1.rest, ScalarInteger(r1.val))))

scalar(i) ==
  IfLetOk(bool(i), LAMBDA r1 : Ok(r1.rest, ScalarBool(r1.val)),
  IfLetOk(number(i), LAMBDA r2 : Ok(r2.rest, r2.val),
  IfLetOk(string(i), LAMBDA r3 : Ok(r3.rest, ScalarString(r3.val)),
  Err(i, "NotMatched"))))

----------------------------------------------------------------------------
(* protocol.rs: the reply recognizers *)

\* The bytes up to the first whitespace are handed on as a &str by
\* from_utf8_unchecked, which does not look at them: the text is the bytes
\* as they are, whether or not they are UTF-8, and no error is built.
name(b) ==
  IF Len(b) = 0 THEN Err(b, "EOF")
  ELSE IF At(b, 1) = "-" THEN Err(b, "NotMatched")
  ELSE take_until(b, is_ascii_whitespace)

inserted(b) ==
  Bind(chars(b, "INSERTED"), LAMBDA r1 :
  Bind(space(r1.rest), LAMBDA r2 :
  Bind(u64(r2.rest), LAMBDA r3 :
  Bind(crlf(r3.rest), LAMBDA r4 :
  Ok(r4.rest, Inserted(r3.val))))))

using(b) ==
  Bind(chars(b, "USING"), LAMBDA r1 :
  Bind(space(r1.rest), LAMBDA r2 :
  Bind(name(r2.rest), LAMBDA r3 :
  Bind(crlf(r3.rest), LAMBDA r4 :
  Ok(r4.rest, Using(r3.val))))))

reserved(b) ==
  Bind(chars(b, "RESERVED"), LAMBDA r1 :
  Bind(space(r1.rest), LAMBDA r2 :
  Bind(u64(r2.rest), LAMBDA r3 :
  Bind(space(r3.rest), LAMBDA r4 :
  Bind(u64(r4.rest), LAMBDA r5 :
  Bind(crlf(r5.rest), LAMBDA r6 :
  Bind(take(r6.rest, AsUsize(r5.val)), LAMBDA r7 :
  Bind(crlf(r7.rest), LAMBDA r8 :
  Ok(r8.rest, Reserved(r3.val, r7.val))))))))))

\* KeywordLine that matches the line and leaves the buffer where it was
KeywordLine_Peek(b, keyword, msg) ==
  Bind(chars(b, keyword), LAMBDA r1 :
  Bind(crlf(r1.rest), LAMBDA r2 :
  Ok(b, msg)))

\* the body shared by the recognizers of a bare keyword line:
\* chars(buf, KEYWORD)?, crlf(i)?, Ok((i, Msg::Variant))
KeywordLine(b, keyword, msg) ==
  Bind(chars(b, keyword), LAMBDA r1 :
  Bind(crlf(r1.rest), LAMBDA r2 :
  Ok(r2.rest, msg)))

\* out_of_memory that reports the server's error reply as a decoding failure
out_of_memory_AsFailure(b) ==
  Bind(chars(b, "OUT_OF_MEMORY"), LAMBDA r1 :
  Bind(crlf(r1.rest), LAMBDA r2 :
  Err(b, "NotMatched")))

out_of_memory(b) == KeywordLine(b, "OUT_OF_MEMORY", Unit("OutOfMemory"))

internal_error(b) == KeywordLine(b, "INTERNAL_ERROR", Unit("InternalError"))

bad_format(b) == KeywordLine(b, "BAD_FORMAT", Unit("BadFormat"))

unknown_command(b) == KeywordLine(b, "UNKNOWN_COMMAND", Unit("UnknownCommand"))

expected_crlf(b) == KeywordLine(b, "EXPECTED_CRLF", Unit("ExpectedCrlf"))

job_too_big(b) == KeywordLine(b, "JOB_TOO_BIG", Unit("JobTooBig"))

draining(b) == KeywordLine(b, "DRAINING", Unit("Draining"))

deadline_soon(b) == KeywordLine(b, "DEADLINE_SOON", Unit("DeadlineSoon"))

timed_out(b) == KeywordLine(b, "TIMED_OUT", Unit("TimedOut"))

not_found(b) == KeywordLine(b, "NOT_FOUND", Unit("NotFound"))

deleted(b) == KeywordLine(b, "DELETED", Unit("Deleted"))

released(b) == KeywordLine(b, "RELEASED", Unit("Released"))

\* buried that falls back to the bare terminator when no integer follows the space
buried_FallsBack(b) ==
  Bind(chars(b, "BURIED"), LAMBDA r1 :
  IfLetOk(space(r1.rest),
    LAMBDA r2 :
      IfLetOk(u64(r2.rest),
        LAMBDA r3 :
          Bind(crlf(r3.rest), LAMBDA r4 :
          Ok(r4.rest, Buried(Some(r3.val)))),
        Bind(crlf(r2.rest), LAMBDA r6 :
        Ok(r6.rest, Buried(None)))),
    Bind(crlf(r1.rest), LAMBDA r5 :
    Ok(r5.rest, Buried(None)))))

buried(b) ==
  Bind(chars(b, "BURIED"), LAMBDA r1 :
  IfLetOk(space(r1.rest),
    LAMBDA r2 :
      Bind(u64(r2.rest), LAMBDA r3 :
      Bind(crlf(r3.rest), LAMBDA r4 :
      Ok(r4.rest, Buried(Some(r3.val))))),
    Bind(crlf(r1.rest), LAMBDA r5 :
    Ok(r5.rest, Buried(None)))))

touched(b) == KeywordLine(b, "TOUCHED", Unit("Touched"))

\* as written in the source: the keyword matched is TOUCHED
watching(b) ==
  Bind(chars(b, "TOUCHED"), LAMBDA r1 :
  Bind(space(r1.rest), LAMBDA r2 :
  Bind(u64(r2.rest), LAMBDA r3 :
  Bind(crlf(r3.rest), LAMBDA r4 :
  Ok(r4.rest, Watching(r3.val))))))

not_ignored(b) == KeywordLine(b, "NOT_IGNORED", Unit("NotIgnored"))

\* as written in the source: no space is matched between FOUND and the id
found(b) ==
  Bind(chars(b, "FOUND"), LAMBDA r1 :
  Bind(u64(r1.rest), LAMBDA r2 :
  Bind(space(r2.rest), LAMBDA r3 :
  Bind(u64(r3.rest), LAMBDA r4 :
  Bind(crlf(r4.rest), LAMBDA r5 :
  Bind(take(r5.rest, AsUsize(r4.val)), LAMBDA r6 :
  Bind(crlf(r6.rest), LAMBDA r7 :
  Ok(r7.rest, Found(r2.val, r6.val)))))))))

kicked(b) ==
  Bind(chars(b, "KICKED"), LAMBDA r1 :
  IfLetOk(space(r1.rest),
    LAMBDA r2 :
      Bind(u64(r2.rest), LAMBDA r3 :
      Bind(crlf(r3.rest), LAMBDA r4 :
      Ok(r4.rest, Kicked(Some(r3.val))))),
    Bind(crlf(r1.rest), LAMBDA r5 :
    Ok(r5.rest, Kicked(None)))))

ok(b) ==
  Bind(chars(b, "OK"), LAMBDA r1 :
  Bind(space(r1.rest), LAMBDA r2 :
  Bind(u64(r2.rest), LAMBDA r3 :
  Bind(crlf(r3.rest), LAMBDA r4 :
  Bind(take(r4.rest, AsUsize(r3.val)), LAMBDA r5 :
  Bind(crlf(r5.rest), LAMBDA r6 :
  Ok(r6.rest, OkMsg(r5.val))))))))

\* paused with the keyword of another recognizer
paused_AsDeleted(b) == KeywordLine(b, "DELETED", Unit("Paused"))

paused(b) == KeywordLine(b, "PAUSED", Unit("Paused"))

----------------------------------------------------------------------------
(* protocol.rs: atomic_parse and parse *)

\* a recognizer, by its name
Recognize(r, b) ==
  CASE r = "inserted" -> inserted(b)
    [] r = "using" -> using(b)
    [] r = "reserved" -> reserved(b)
    [] r = "out_of_memory" -> out_of_memory(b)
    [] r = "internal_error" -> internal_error(b)
    [] r = "bad_format" -> bad_format(b)
    [] r = "unknown_command" -> unknown_command(b)
    [] r = "expected_crlf" -> expected_crlf(b)
    [] r = "job_too_big" -> job_too_big(b)
    [] r = "draining" -> draining(b)
    [] r = "deadline_soon" -> deadline_soon(b)
    [] r = "timed_out" -> timed_out(b)
    [] r = "not_found" -> not_found(b)
    [] r = "deleted" -> deleted(b)
    [] r = "released" -> released(b)
    [] r = "buried" -> buried(b)
    [] r = "touched" -> touched(b)
    [] r = "watching" -> watching(b)
    [] r = "not_ignored" -> not_ignored(b)
    [] r = "found" -> found(b)
    [] r = "kicked" -> kicked(b)
    [] r = "ok" -> ok(b)
    [] r = "paused" -> paused(b)

\* the order of the try_parse! lines of atomic_parse
AtomicOrder ==
  << "inserted", "using", "reserved", "out_of_memory", "internal_error",
     "bad_format", "unknown_command", "expected_crlf", "job_too_big",
     "draining", "deadline_soon", "timed_out", "not_found", "deleted",
     "released", "buried", "touched", "watching", "not_ignored", "found",
     "kicked", "ok", "paused" >>

\* the order of the do_match! lines of parse
ParseOrder ==
  << "inserted", "using", "reserved", "out_of_memory", "internal_error",
     "bad_format", "unknown_command", "expected_crlf", "job_too_big",
     "draining", "deadline_soon", "timed_out", "not_found", "deleted",
     "released", "buried", "touched", "watching", "not_ignored", "found",
     "kicked", "ok", "paused" >>

\* try_parse!/do_match! one recognizer after the other from the k-th of
\* `order` on: the first Ok wins, every Err is dropped; after the last one,
\* not_matched!(buf)
RECURSIVE Alternation(_, _, _)
OrNext(r, order, b, k) == IF r.isOk THEN r ELSE Alternation(order, b, k)

Alternation(order, b, k) ==
  IF k > Len(order) THEN Err(b, "NotMatched")
  ELSE OrNext(Recognize(order[k], b), order, b, k + 1)

atomic_parse(b) == Alternation(AtomicOrder, b, 1)

\* the () of R<'a, ()>
UnitVal == [tag |-> "()", args |-> <<>>]

\* parse(buf, msgs): the returned R and msgs as the call leaves it.
\* One turn of `while buf.len() > 0`: a recognizer's Ok pushes the message,
\* moves buf on and continues; with none, not_matched!(buf) returns.
RECURSIVE parse(_, _)

\* do_match that on failure reports the remainder one byte further on
do_match_DropsByte(r, b, ms) ==
  IF r.isOk THEN parse(r.rest, Append(ms, r.val))
  ELSE [res |-> Err(From(b, 1), "NotMatched"), msgs |-> ms]

do_match(r, b, ms) ==
  IF r.isOk THEN parse(r.rest, Append(ms, r.val))
  ELSE [res |-> Err(b, "NotMatched"), msgs |-> ms]

parse(b, ms) ==
  IF Len(b) > 0
  THEN do_match(Alternation(ParseOrder, b, 1), b, ms)
  ELSE [res |-> Ok(b, UnitVal), msgs |-> ms]

----------------------------------------------------------------------------
(* yaml.rs: the list and map documents of the stats and list replies.      *)
(* A YAMLList (Vec<&str>) is a sequence of texts, a YAMLMap               *)
(* (HashMap<&str, Scalar>) a function from its keys to their Scalar.       *)

start(i) ==
  Bind(chars(i, "---"), LAMBDA r1 :
  Bind(lf(r1.rest), LAMBDA r2 :
  Ok(r2.rest, "")))

list_entry(i) ==
  Bind(chars(i, " - "), LAMBDA r1 :
  Ok(r1.rest, ""))

map_entry(i) ==
  Bind(string(i), LAMBDA r1 :
  Bind(chars(r1.rest, ": "), LAMBDA r2 :
  Bind(scalar(r2.rest), LAMBDA r3 :
  Ok(r3.rest, <<r1.val, r3.val>>))))

\* Vec::new()
EmptyList == <<>>

\* Push that leaves out a value the list already holds (a set)
Push_Distinct(list, value) ==
  IF \E k \in 1..Len(list) : list[k] = value THEN list ELSE Append(list, value)

\* list.push(value)
Push(list, value) == Append(list, value)

\* HashMap::new()
EmptyMap == [k \in {} |-> Nothing]

\* Insert that keeps the value a key already has
Insert_KeepFirst(map, key, value) ==
  [k \in DOMAIN map \cup {key} |-> IF k \in DOMAIN map THEN map[k] ELSE value]

\* map.insert(key, value)
Insert(map, key, value) ==
  [k \in DOMAIN map \cup {key} |-> IF k = key THEN value ELSE map[k]]

\* the loop of yaml_list: while buf.len() > 0 { list_entry, string, lf, push }
RECURSIVE ListLoop(_, _)
ListLoop(b, list) ==
  IF Len(b) > 0
  THEN Bind(list_entry(b), LAMBDA r1 :
       Bind(string(r1.rest), LAMBDA r2 :
       Bind(lf(r2.rest), LAMBDA r3 :
       ListLoop(r3.rest, Push(list, r2.val)))))
  ELSE Ok(b, list)

yaml_list(b) ==
  Bind(start(b), LAMBDA r1 :
  ListLoop(r1.rest, EmptyList))

\* the loop of yaml_map: while buf.len() > 0 { map_entry, lf, insert }
RECURSIVE MapLoop(_, _)
MapLoop(b, map) ==
  IF Len(b) > 0
  THEN Bind(map_entry(b), LAMBDA r1 :
       Bind(lf(r1.rest), LAMBDA r2 :
       MapLoop(r2.rest, Insert(map, r1.val[1], r1.val[2]))))
  ELSE Ok(b, map)

yaml_map(b) ==
  Bind(start(b), LAMBDA r1 :
  MapLoop(r1.rest, EmptyMap))

----------------------------------------------------------------------------
(* src/lib/mod.rs: the tube-name predicate.  A char is a one-character     *)
(* string; a char that is no ASCII letter and none of the listed ones is   *)
(* in neither set.                                                         *)

is_alpha(c) == c \in Bytes("ABCDEFGHIJKLMNOPQRSTUVWXYZ") \/ c \in Bytes("abcdefghijklmnopqrstuvwxyz")

\* is_special_start with the characters the error message of InvalidName lists
is_special_start_AsMessage(c) == c \in {"+", "/", ";", "?", "$", "_", "(", ")"}

is_special_start(c) == c \in {"+", "/", ";", ".", "$", "_", "(", ")"}

is_name_start(c) == is_alpha(c) \/ is_special_start(c)

is_name_char(c) == is_name_start(c) \/ c = "-"

\* Error::InvalidName(String)
InvalidName(n) ==
  [isOk |-> FALSE, rest |-> "", val |-> [tag |-> "InvalidName", args |-> <<n>>], kind |-> "InvalidName"]

is_name(n) ==
  IF Len(n) = 0 THEN FALSE
  ELSE IF ~is_name_start(At(n, 1)) THEN FALSE
  ELSE \A k \in 2..Len(n) : is_name_char(At(n, k))

validate_name(n) == IF is_name(n) THEN Ok("", UnitVal) ELSE InvalidName(n)

----------------------------------------------------------------------------
(* protocol.rs: enum Cmd and impl From<Cmd<'_>> for Vec<u8> *)

CRLF == "\r\n"

\* EncodePut with the closing CRLF counted in the length field
EncodePut_CountsCrlf(pri, delay, ttr, payload) ==
  ("put " \o ToDecimal(pri) \o " " \o ToDecimal(delay) \o " " \o ToDecimal(ttr)
     \o " " \o ToDecimal(Len(payload) + 2) \o "\r\n")
    \o payload \o CRLF

\* Cmd::Put { pri, delay, ttr, payload }
EncodePut(pri, delay, ttr, payload) ==
  ("put " \o ToDecimal(pri) \o " " \o ToDecimal(delay) \o " " \o ToDecimal(ttr)
     \o " " \o ToDecimal(Len(payload)) \o "\r\n")
    \o payload \o CRLF

\* EncodeRelease with the arguments in the order the pattern binds them
EncodeRelease_PatternOrder(id, pri, delay) ==
  "release " \o ToDecimal(pri) \o " " \o ToDecimal(delay) \o " " \o ToDecimal(id) \o "\r\n"

\* Cmd::Release { pri, delay, id }
EncodeRelease(id, pri, delay) ==
  "release " \o ToDecimal(id) \o " " \o ToDecimal(pri) \o " " \o ToDecimal(delay) \o "\r\n"

Encode(c) ==
  CASE c.tag = "Put" -> EncodePut(c.pri, c.delay, c.ttr, c.payload)
    [] c.tag = "Use" -> "use " \o c.tube \o "\r\n"
    [] c.tag = "Reserve" -> "reserve\r\n"
    [] c.tag = "ReserveJob" -> "reserve-job " \o ToDecimal(c.id) \o "\r\n"
    [] c.tag = "ReserveTimeout" -> "reserve-with-timeout " \o ToDecimal(c.secs) \o "\r\n"
    [] c.tag = "Delete" -> "delete " \o ToDecimal(c.id) \o "\r\n"
    [] c.tag = "Release" -> EncodeRelease(c.id, c.pri, c.delay)
    [] c.tag = "Bury" -> "bury " \o ToDecimal(c.id) \o " " \o ToDecimal(c.pri) \o "\r\n"
    [] c.tag = "Touch" -> "touch " \o ToDecimal(c.id) \o "\r\n"
    [] c.tag = "Watch" -> "watch " \o c.tube \o "\r\n"
    [] c.tag = "Ignore" -> "ignore " \o c.tube \o "\r\n"
    [] c.tag = "Peek" -> "peek " \o ToDecimal(c.id) \o "\r\n"
    [] c.tag = "PeekReady" -> "peek-ready\r\n"
    [] c.tag = "PeekDelayed" -> "peek-delayed\r\n"
    [] c.tag = "PeekBuried" -> "peek-buried\r\n"
    [] c.tag = "Kick" -> "kick " \o ToDecimal(c.bound) \o "\r\n"
    [] c.tag = "KickJob" -> "kick-job " \o ToDecimal(c.id) \o "\r\n"
    [] c.tag = "StatsJob" -> "stats-job " \o ToDecimal(c.id) \o "\r\n"
    [] c.tag = "StatsTube" -> "stats-tube " \o c.tube \o "\r\n"
    [] c.tag = "Stats" -> "stats\r\n"
    [] c.tag = "ListTubes" -> "list-tubes\r\n"
    [] c.tag = "ListTubeUsed" -> "list-tube-used\r\n"
    [] c.tag = "ListTubesWatched" -> "list-tubes-watched\r\n"
    [] c.tag = "Quit" -> "quit\r\n"
    [] c.tag = "PauseTube" -> "pause-tube " \o c.tube \o " " \o ToDecimal(c.delay) \o "\r\n"

----------------------------------------------------------------------------
(* Bounds and the values the inputs are drawn from *)

\* the longest payload of a put command or of a RESERVED/FOUND/OK reply
MaxPayloadLen == 4

\* the most complete frames in a buffer that is drained
MaxFrames == 2

\* payload bytes: CR and LF, which also delimit frames, and a digit
PayloadBytes == {"\r", "\n", "1"}

RECURSIVE PayloadsOfLen(_)
PayloadsOfLen(n) ==
  IF n = 0 THEN {""} ELSE {p \o x : p \in PayloadsOfLen(n - 1), x \in PayloadBytes}

Payloads == UNION {PayloadsOfLen(n) : n \in 0..MaxPayloadLen}

\* u32 arguments (pri, delay, ttr) and u64 arguments (id, secs, bound)
CmdNums == {0, 7, 60, 1024}

CmdIds == {0, 42, 100000}

Tubes == {"tube", "a-b"}

Cmds ==
  {[tag |-> "Put", pri |-> p, delay |-> d, ttr |-> t, payload |-> x] :
      p \in CmdNums, d \in {0, 7}, t \in {60, 1024}, x \in Payloads}
  \cup {[tag |-> t, tube |-> n] : t \in {"Use", "Watch", "Ignore", "StatsTube"}, n \in Tubes}
  \cup {[tag |-> t] : t \in {"Reserve", "PeekReady", "PeekDelayed", "PeekBuried", "Stats",
                             "ListTubes", "ListTubeUsed", "ListTubesWatched", "Quit"}}
  \cup {[tag |-> t, id |-> i] :
          t \in {"ReserveJob", "Delete", "Touch", "Peek", "KickJob", "StatsJob"}, i \in CmdIds}
  \cup {[tag |-> "ReserveTimeout", secs |-> i] : i \in CmdIds}
  \cup {[tag |-> "Kick", bound |-> i] : i \in CmdIds}
  \cup {[tag |-> "Release", id |-> i, pri |-> p, delay |-> d] :
          i \in CmdIds, p \in CmdNums, d \in CmdNums}
  \cup {[tag |-> "Bury", id |-> i, pri |-> p] : i \in CmdIds, p \in CmdNums}
  \cup {[tag |-> "PauseTube", tube |-> n, delay |-> d] : n \in Tubes, d \in CmdNums}

----------------------------------------------------------------------------
(* The reply frames of the peer, in the wire form the protocol documents:  *)
(* KEYWORD[ args]\r\n, and for RESERVED, FOUND and OK the announced number *)
(* of payload bytes and a closing \r\n after it.  A frame is written as    *)
(* the Msg it stands for.                                                  *)

Keyword(tag) ==
  CASE tag = "OutOfMemory" -> "OUT_OF_MEMORY"
    [] tag = "InternalError" -> "INTERNAL_ERROR"
    [] tag = "BadFormat" -> "BAD_FORMAT"
    [] tag = "UnknownCommand" -> "UNKNOWN_COMMAND"
    [] tag = "ExpectedCrlf" -> "EXPECTED_CRLF"
    [] tag = "JobTooBig" -> "JOB_TOO_BIG"
    [] tag = "Draining" -> "DRAINING"
    [] tag = "DeadlineSoon" -> "DEADLINE_SOON"
    [] tag = "TimedOut" -> "TIMED_OUT"
    [] tag = "NotFound" -> "NOT_FOUND"
    [] tag = "NotIgnored" -> "NOT_IGNORED"
    [] tag = "Deleted" -> "DELETED"
    [] tag = "Released" -> "RELEASED"
    [] tag = "Touched" -> "TOUCHED"
    [] tag = "Paused" -> "PAUSED"
    [] tag = "Inserted" -> "INSERTED"
    [] tag = "Buried" -> "BURIED"
    [] tag = "Using" -> "USING"
    [] tag = "Reserved" -> "RESERVED"
    [] tag = "Watching" -> "WATCHING"
    [] tag = "Found" -> "FOUND"
    [] tag = "Kicked" -> "KICKED"
    [] tag = "Ok" -> "OK"

UnitTags ==
  {"OutOfMemory", "InternalError", "BadFormat", "UnknownCommand", "ExpectedCrlf",
   "JobTooBig", "Draining", "DeadlineSoon", "TimedOut", "NotFound", "NotIgnored",
   "Deleted", "Released", "Touched", "Paused"}

AllTags == UnitTags \cup {"Inserted", "Buried", "Using", "Reserved", "Watching", "Found", "Kicked", "Ok"}

Wire(f) ==
  CASE f.tag \in UnitTags -> Keyword(f.tag) \o CRLF
    [] f.tag \in {"Inserted", "Using", "Watching"} -> Keyword(f.tag) \o " " \o f.args[1] \o CRLF
    [] f.tag \in {"Buried", "Kicked"} ->
         IF f.args = None THEN Keyword(f.tag) \o CRLF
         ELSE Keyword(f.tag) \o " " \o f.args[2] \o CRLF
    [] f.tag \in {"Reserved", "Found"} ->
         Keyword(f.tag) \o " " \o f.args[1] \o " " \o ToDecimal(Len(f.args[2])) \o CRLF
           \o f.args[2] \o CRLF
    [] f.tag = "Ok" -> "OK " \o ToDecimal(Len(f.args[1])) \o CRLF \o f.args[1] \o CRLF

RECURSIVE WireAll(_)
WireAll(fs) == IF Len(fs) = 0 THEN "" ELSE Wire(Head(fs)) \o WireAll(Tail(fs))

\* the last one is u64::MAX
FrameNums == {"0", "5", "42", "18446744073709551615"}

FrameIds == {"0", "42"}

FrameNames == {"Hello", "a-b"}

\* every kind of frame, the payload-bearing ones with every payload
RichFrames ==
  {Unit(t) : t \in UnitTags}
  \cup {Buried(None), Kicked(None)}
  \cup {Buried(Some(n)) : n \in FrameNums}
  \cup {Kicked(Some(n)) : n \in FrameNums}
  \cup {Inserted(n) : n \in FrameNums}
  \cup {Watching(n) : n \in FrameNums}
  \cup {Using(n) : n \in FrameNames}
  \cup {Reserved(i, p) : i \in FrameIds, p \in Payloads}
  \cup {Found(i, p) : i \in FrameIds, p \in Payloads}
  \cup {OkMsg(p) : p \in Payloads}

\* the frames of the buffers that hold several
StreamFrames ==
  {Reserved("42", "123"), Using("Hello"), Inserted("5"), Unit("Deleted"),
   OkMsg("\r\n\r\n"), Watching("2")}

RECURSIVE FrameSeqs(_)
FrameSeqs(n) ==
  IF n = 0 THEN {<<>>}
  ELSE FrameSeqs(n - 1) \cup {Append(fs, f) : fs \in {x \in FrameSeqs(n - 1) : Len(x) = n - 1}, f \in StreamFrames}

\* the non-empty proper prefixes of the frames of F
ProperPrefixes(F) == UNION {{UpTo(Wire(f), k) : k \in 1..(Len(Wire(f)) - 1)} : f \in F}

\* bytes that are no frame, no part of one, and do not begin with one
Malformed ==
  {"GARBAGE\r\n", "X", "\r\n", "42\r\n", "inserted 5\r\n", "TOUCHED 5\r\n",
   "WATCHING\r\n", "USING -x\r\n", "INSERTED x\r\n", "OK\r\n", "FOUND42 1\r\n1\r\n"}

\* replies with a valid keyword whose integer argument is missing, malformed
\* or does not fit 64 bits
Unfit ==
  {"INSERTED 99999999999999999999\r\n", "INSERTED 18446744073709551616\r\n",
   "BURIED \r\n", "BURIED x\r\n", "BURIED 5x\r\n", "BURIED 99999999999999999999\r\n",
   "KICKED \r\n", "KICKED x\r\n", "KICKED -1\r\n", "KICKED 18446744073709551616\r\n"}

\* bytes that follow a reply in the buffer
Rests == {"X", "\r\n", " 5\r\n", "IN", "DELETED\r\n", "GARBAGE\r\nDELETED\r\n"}

\* the character that stands for the byte 0xFF, which occurs in no UTF-8 text
NonUtf8 == {"^"}

\* USING replies whose name holds a byte that is not UTF-8
BadText == {"USING a^b\r\n", "USING ^\r\n"}

Inputs ==
  {[frames |-> <<f>>, frag |-> ""] : f \in RichFrames}
  \cup {[frames |-> <<Unit(t)>>, frag |-> g] : t \in UnitTags, g \in Rests}
  \cup {[frames |-> fs, frag |-> g] : fs \in {<<>>, <<Inserted("5")>>}, g \in Unfit}
  \cup {[frames |-> <<>>, frag |-> g] : g \in BadText}
  \cup {[frames |-> <<>>, frag |-> g] : g \in ProperPrefixes(RichFrames)}
  \cup {[frames |-> fs, frag |-> g] :
          fs \in FrameSeqs(MaxFrames),
          g \in {""} \cup ProperPrefixes(StreamFrames) \cup Malformed}

\* what the caller's vector may hold when parse is called
Held == {<<>>, <<Unit("Paused")>>}

----------------------------------------------------------------------------
(* The decoder: a buffer is handed to atomic_parse or to parse *)

NoCall == [isOk |-> FALSE, rest |-> "", val |-> Nothing, kind |-> "NoCall"]

NoCmd == [tag |-> "None"]

Init ==
  /\ \E in \in Inputs :
       /\ frames = in.frames
       /\ frag = in.frag
       /\ buf = WireAll(in.frames) \o in.frag
  /\ held \in Held
  /\ msgs = held
  /\ res = NoCall
  /\ cmd = NoCmd
  /\ out = ""
  /\ op = "init"
  /\ NoClient

\* let res = protocol::atomic_parse(buf)
AtomicParse ==
  /\ op = "init"
  /\ cmd = NoCmd
  /\ res' = atomic_parse(buf)
  /\ op' = "atomic_parse"
  /\ UNCHANGED <<frames, frag, buf, held, msgs, cmd, out, client>>

\* let res = protocol::parse(buf, &mut msgs)
Parse ==
  /\ op = "init"
  /\ cmd = NoCmd
  /\ LET r == parse(buf, msgs) IN
       /\ res' = r.res
       /\ msgs' = r.msgs
  /\ op' = "parse"
  /\ UNCHANGED <<frames, frag, buf, held, cmd, out, client>>

Next == AtomicParse \/ Parse

Spec == Init /\ [][Next]_vars

----------------------------------------------------------------------------
(* The encoder: a command is turned into bytes *)

InitEncode ==
  /\ cmd \in Cmds
  /\ out = ""
  /\ frames = <<>>
  /\ frag = ""
  /\ buf = ""
  /\ held = <<>>
  /\ msgs = <<>>
  /\ res = NoCall
  /\ op = "init"
  /\ NoClient

\* let out: Vec<u8> = cmd.into()
DoEncode ==
  /\ op = "init"
  /\ cmd # NoCmd
  /\ out' = Encode(cmd)
  /\ op' = "encode"
  /\ UNCHANGED <<frames, frag, buf, held, msgs, res, cmd, client>>

NextEncode == DoEncode

SpecEncode == InitEncode /\ [][NextEncode]_vars

----------------------------------------------------------------------------
(* The primitive matchers of parser.rs, each applied to a buffer *)

\* the longest buffer over MatchBytes handed to a matcher, and the largest
\* count handed to take
MaxMatchLen == 3

MatchBytes == {"\r", "\n", " ", ".", "1", "t"}

RECURSIVE BuffersOfLen(_)
BuffersOfLen(n) ==
  IF n = 0 THEN {""} ELSE {p \o x : p \in BuffersOfLen(n - 1), x \in MatchBytes}

\* longer buffers: literals, and digit runs around u64::MAX
MatchTexts ==
  {"true", "false", "truex", "fals", "hello world", "foo\r\n", "\r\nbar", "---\n",
   "1234", "007", "3.14", "3.05", "3.x", "42abc", "1.007", "3.50", "10.5", "0.0",
   "18446744073709551615", "18446744073709551616", "18446744073709551615x",
   "0018446744073709551615 ", "0018446744073709551616", "99999999999999999999\r\n",
   "184467440737095516150", "18446744073709551616.5", "1.18446744073709551616"}

MatchInputs == UNION {BuffersOfLen(n) : n \in 0..MaxMatchLen} \cup MatchTexts

MatchFuncs == {is_ascii_digit, is_ascii_alphabetic, is_ascii_alphanumeric, is_ascii_whitespace}

InitMatch ==
  /\ buf \in MatchInputs
  /\ frames = <<>>
  /\ frag = ""
  /\ held = <<>>
  /\ msgs = <<>>
  /\ res = NoCall
  /\ cmd = NoCmd
  /\ out = ""
  /\ op = "init"
  /\ NoClient

\* what a matcher call leaves alone
MatchFrame == UNCHANGED <<frames, frag, buf, held, msgs, cmd, out, client>>

Char ==
  /\ op = "init"
  /\ \E c \in {"\r", "1", "t"} : res' = char(buf, c)
  /\ op' = "char"
  /\ MatchFrame

Chars ==
  /\ op = "init"
  /\ \E value \in {"t", "1.", "---", "true"} : res' = chars(buf, value)
  /\ op' = "chars"
  /\ MatchFrame

Crlf ==
  /\ op = "init"
  /\ res' = crlf(buf)
  /\ op' = "crlf"
  /\ MatchFrame

Space ==
  /\ op = "init"
  /\ res' = space(buf)
  /\ op' = "space"
  /\ MatchFrame

Lf ==
  /\ op = "init"
  /\ res' = lf(buf)
  /\ op' = "lf"
  /\ MatchFrame

Take ==
  /\ op = "init"
  /\ \E len \in 0..MaxMatchLen : res' = take(buf, len)
  /\ op' = "take"
  /\ MatchFrame

TakeWhile ==
  /\ op = "init"
  /\ \E func \in MatchFuncs : res' = take_while(buf, func)
  /\ op' = "take_while"
  /\ MatchFrame

TakeUntil ==
  /\ op = "init"
  /\ \E func \in MatchFuncs : res' = take_until(buf, func)
  /\ op' = "take_until"
  /\ MatchFrame

U64 ==
  /\ op = "init"
  /\ res' = u64(buf)
  /\ op' = "u64"
  /\ MatchFrame

Bool ==
  /\ op = "init"
  /\ res' = bool(buf)
  /\ op' = "bool"
  /\ MatchFrame

Number ==
  /\ op = "init"
  /\ res' = number(buf)
  /\ op' = "number"
  /\ MatchFrame

String ==
  /\ op = "init"
  /\ res' = string(buf)
  /\ op' = "string"
  /\ MatchFrame

Scalar ==
  /\ op = "init"
  /\ res' = scalar(buf)
  /\ op' = "scalar"
  /\ MatchFrame

NextMatch ==
  \/ Char \/ Chars \/ Crlf \/ Space \/ Lf \/ Take \/ TakeWhile \/ TakeUntil
  \/ U64 \/ Bool \/ Number \/ String \/ Scalar

SpecMatch == InitMatch /\ [][NextMatch]_vars

----------------------------------------------------------------------------
(* The YAML documents of yaml.rs: the lines of a document are held in      *)
(* frames, one record per line, and the bytes after them in frag.          *)

\* the most entry lines in a document
MaxLines == 3

MapKeys == {"a", "b"}

\* value tokens: the two booleans, a digit run, a float, and texts
MapValues == {"true", "false", "42", "3.14", "HelloWorld", "trueish"}

ListValues == {"hello", "world", "42"}

MapLine(k, v) == [list |-> FALSE, key |-> k, value |-> v]

ListLine(v) == [list |-> TRUE, key |-> "", value |-> v]

\* "key: value\n" and " - value\n"
Line(e) == IF e.list THEN " - " \o e.value \o "\n" ELSE e.key \o ": " \o e.value \o "\n"

RECURSIVE Lines(_)
Lines(es) == IF Len(es) = 0 THEN "" ELSE Line(Head(es)) \o Lines(Tail(es))

\* the sequences over E of at most n elements
RECURSIVE SeqsUpTo(_, _)
SeqsUpTo(E, n) ==
  IF n = 0 THEN {<<>>}
  ELSE SeqsUpTo(E, n - 1) \cup {Append(es, e) : es \in {x \in SeqsUpTo(E, n - 1) : Len(x) = n - 1}, e \in E}

MapDocs == SeqsUpTo({MapLine(k, v) : k \in MapKeys, v \in MapValues}, MaxLines)

ListDocs == SeqsUpTo({ListLine(v) : v \in ListValues}, MaxLines)

\* bytes after the last complete line that are no line
YamlJunk == {"a: 1", " - x", "\n", "a-b: 1\n", " - a-b\n"}

\* value tokens that begin like a boolean or a number and are neither, and
\* a digit run that does not fit 64 bits
OddValues == {"42abc", "falsey", "1x", "99999999999999999999", "18446744073709551616"}

OddDocs ==
  {<<MapLine(k, v)>> : k \in MapKeys, v \in OddValues}
  \cup {<<MapLine("a", "42"), MapLine("b", v)>> : v \in OddValues}

YamlInputs ==
  {[lines |-> es, frag |-> ""] : es \in MapDocs \cup ListDocs \cup OddDocs}
  \cup {[lines |-> es, frag |-> g] :
          es \in {<<>>, <<MapLine("a", "42")>>, <<ListLine("hello")>>}, g \in YamlJunk}

InitYaml ==
  /\ \E d \in YamlInputs :
       /\ frames = d.lines
       /\ frag = d.frag
       /\ buf = ("---\n" \o Lines(d.lines)) \o d.frag
  /\ held = <<>>
  /\ msgs = <<>>
  /\ res = NoCall
  /\ cmd = NoCmd
  /\ out = ""
  /\ op = "init"
  /\ NoClient

\* let res = yaml::yaml_list(buf)
YamlList ==
  /\ op = "init"
  /\ res' = yaml_list(buf)
  /\ op' = "yaml_list"
  /\ UNCHANGED <<frames, frag, buf, held, msgs, cmd, out, client>>

\* let res = yaml::yaml_map(buf)
YamlMap ==
  /\ op = "init"
  /\ res' = yaml_map(buf)
  /\ op' = "yaml_map"
  /\ UNCHANGED <<frames, frag, buf, held, msgs, cmd, out, client>>

NextYaml == YamlList \/ YamlMap

SpecYaml == InitYaml /\ [][NextYaml]_vars

----------------------------------------------------------------------------
(* The tube-name check of src/lib/mod.rs, applied to a name held in buf *)

\* the longest name checked
MaxNameLen == 3

\* letters, listed characters, the dash, and characters outside the grammar
NameChars == {"a", "Z", "+", ".", "(", "-", "1", " ", "?"}

RECURSIVE NamesOfLen(_)
NamesOfLen(n) ==
  IF n = 0 THEN {""} ELSE {p \o x : p \in NamesOfLen(n - 1), x \in NameChars}

Names == UNION {NamesOfLen(n) : n \in 0..MaxNameLen} \cup {"default", "a-b/c;d$e_f", "tube1"}

InitName ==
  /\ buf \in Names
  /\ frames = <<>>
  /\ frag = ""
  /\ held = <<>>
  /\ msgs = <<>>
  /\ res = NoCall
  /\ cmd = NoCmd
  /\ out = ""
  /\ op = "init"
  /\ NoClient

\* let res = validate_name(name)
ValidateName ==
  /\ op = "init"
  /\ res' = validate_name(buf)
  /\ op' = "validate_name"
  /\ UNCHANGED <<frames, frag, buf, held, msgs, cmd, out, client>>

NextName == ValidateName

SpecName == InitName /\ [][NextName]_vars

----------------------------------------------------------------------------
(* The loop of parse, turn by turn: buf is the loop's own buf, which moves  *)
(* on over the input WireAll(frames) \o frag; op is "parse_loop" between    *)
(* two turns and "parse" once the function has returned.                   *)

LoopFrags == {"", "IN", "RESERVED 42 3\r\n12"} \cup Malformed

InitLoop ==
  /\ frames \in FrameSeqs(MaxFrames)
  /\ frag \in LoopFrags
  /\ buf = WireAll(frames) \o frag
  /\ held \in Held
  /\ msgs = held
  /\ res = NoCall
  /\ cmd = NoCmd
  /\ out = ""
  /\ op = "init"
  /\ NoClient

\* the do_match! lines of one turn, r being the first Ok among the
\* recognizers (or their failure): push and continue, or not_matched!(buf)
Turn(r) ==
  IF r.isOk
  THEN /\ msgs' = Append(msgs, r.val)
       /\ buf' = r.rest
       /\ op' = "parse_loop"
       /\ UNCHANGED res
  ELSE /\ res' = Err(buf, "NotMatched")
       /\ op' = "parse"
       /\ UNCHANGED <<msgs, buf>>

\* one turn of `while buf.len() > 0 { .. }`
ParseTurn ==
  /\ op \in {"init", "parse_loop"}
  /\ Len(buf) > 0
  /\ Turn(Alternation(ParseOrder, buf, 1))
  /\ UNCHANGED <<frames, frag, held, cmd, out, client>>

\* the loop condition fails: Ok((buf, ()))
ParseExit ==
  /\ op \in {"init", "parse_loop"}
  /\ Len(buf) = 0
  /\ res' = Ok(buf, UnitVal)
  /\ op' = "parse"
  /\ UNCHANGED <<frames, frag, buf, held, msgs, cmd, out, client>>

NextLoop == ParseTurn \/ ParseExit

\* the loop runs on its own: a turn that can be taken is taken
SpecLoop == InitLoop /\ [][NextLoop]_vars /\ WF_vars(NextLoop)

----------------------------------------------------------------------------
(* client.rs: a BeanstalkClient on a TcpStream.  An operation encodes its  *)
(* command, hands it to stream.write, and runs handle_response, which      *)
(* reads line after line into buf until atomic_parse decodes it.  op is    *)
(* "idle" between two operations and "reading" inside handle_response.     *)
(* The peer answers each command it has received in full with one reply    *)
(* frame; it may also write bytes that are no frame, or shut the stream.   *)

\* the operations one client runs
MaxOps == 2

\* the stream accepts, or hands over, one byte up to MaxChunk bytes at a
\* time, or all there is
MaxChunk == 2

\* Option<u32>::unwrap_or
unwrap_or(o, default) == IF o = None THEN default ELSE o[2]

\* Cmd::Put { pri: pri.unwrap_or(0), delay: delay.unwrap_or(0), ttr: ttr.unwrap_or(60), payload }
PutCmd(payload, pri, delay, ttr) ==
  [tag |-> "Put", pri |-> unwrap_or(pri, 0), delay |-> unwrap_or(delay, 0),
   ttr |-> unwrap_or(ttr, 60), payload |-> payload]

\* Cmd::Delete(id)
DeleteCmd(id) == [tag |-> "Delete", id |-> id]

\* Cmd::Reserve
ReserveCmd == [tag |-> "Reserve"]

\* Cmd::Release { id, pri: pri.unwrap_or(0), delay: delay.unwrap_or(0) }
ReleaseCmd(id, pri, delay) ==
  [tag |-> "Release", id |-> id, pri |-> unwrap_or(pri, 0), delay |-> unwrap_or(delay, 0)]

\* the arguments the operations are called with
ClientPayloads == {"", "1\n1"}
ClientOptions == {None, Some(7)}
ClientIds == {42}

\* Result<T, BeanstalkError>
Done(v) == [isOk |-> TRUE, val |-> v]
Failed(e) == [isOk |-> FALSE, err |-> e]

\* BeanstalkError::Msg(m)
MsgError(m) == [tag |-> "Msg", args |-> <<m>>]

\* the match on the reply that ends each operation:
\* the reply the operation asks for => Ok(..), m => Err(BeanstalkError::Msg(m))
Answer(c, m) ==
  CASE c.tag = "Put" /\ m.tag = "Inserted" -> Done(m.args[1])
    [] c.tag = "Delete" /\ m.tag = "Deleted" -> Done(UnitVal)
    [] c.tag = "Reserve" /\ m.tag = "Reserved" -> Done(<<m.args[1], m.args[2]>>)
    [] c.tag = "Release" /\ m.tag = "Released" -> Done(UnitVal)
    [] OTHER -> Failed(MsgError(m))

\* the commands of a sequence of operations, as the peer is to receive them
RECURSIVE EncodeAll(_)
EncodeAll(cs) == IF Len(cs) = 0 THEN "" ELSE Encode(Head(cs)) \o EncodeAll(Tail(cs))

\* the numbers of bytes one write to, or one read from, the stream may move
\* when n bytes are on offer
ChunkSizes(n) == {k \in 1..n : k <= MaxChunk \/ k = n}

\* self.stream.write(&cmd)?: the stream takes the first n bytes and reports
\* n, which the caller drops
stream_write(bytes, n) == UpTo(bytes, n)

\* let cmd: Vec<u8> = c.into(); self.stream.write(&cmd)?; and the entry of
\* handle_response: BufReader::new(&self.stream), Vec::new()
Send(c) ==
  /\ op = "idle"
  /\ Len(calls) < MaxOps
  /\ calls' = Append(calls, c)
  /\ cmd' = c
  /\ out' = Encode(c)
  /\ \E n \in ChunkSizes(Len(Encode(c))) : sent' = sent \o stream_write(Encode(c), n)
  /\ buf' = ""
  /\ rbuf' = ""
  /\ op' = "reading"
  /\ UNCHANGED <<frames, frag, held, msgs, res, wire, peer>>

Put ==
  \E payload \in ClientPayloads, pri \in ClientOptions :
    Send(PutCmd(payload, pri, None, None))

Delete == \E id \in ClientIds : Send(DeleteCmd(id))

Reserve == Send(ReserveCmd)

Release == \E id \in ClientIds, delay \in ClientOptions : Send(ReleaseCmd(id, None, delay))

\* memchr(b'\n', available): the place of the first LF, 0 if there is none
memchr(s) ==
  IF \E i \in 1..Len(s) : At(s, i) = "\n"
  THEN CHOOSE i \in 1..Len(s) : At(s, i) = "\n" /\ \A j \in 1..(i - 1) : At(s, j) # "\n"
  ELSE 0

\* read_until has returned with b in buf and rb left in the reader, which is
\* dropped and made anew for the next try
Decide_NewReader(b, rb, r) ==
  IF r.isOk
  THEN /\ msgs' = Append(msgs, r.val)
       /\ res' = Answer(cmd, r.val)
       /\ buf' = ""
       /\ rbuf' = ""
       /\ op' = "idle"
  ELSE /\ buf' = b
       /\ rbuf' = ""
       /\ UNCHANGED <<msgs, res, op>>

\* read_until has returned with b in buf and rb left in the reader, and r is
\* atomic_parse(&buf): Ok((_, msg)) => return Ok(msg), the caller's match
\* making the operation's result of it (reader and buf end with the call);
\* Err(_) => the loop reads on with the same reader
Decide(b, rb, r) ==
  IF r.isOk
  THEN /\ msgs' = Append(msgs, r.val)
       /\ res' = Answer(cmd, r.val)
       /\ buf' = ""
       /\ rbuf' = ""
       /\ op' = "idle"
  ELSE /\ buf' = b
       /\ rbuf' = rb
       /\ UNCHANGED <<msgs, res, op>>

\* one turn of read_until on what the reader has to offer: up to and with
\* the first LF into buf, and read_until returns; without an LF all of it
\* into buf, and read_until asks the reader for more
Extend(available) ==
  IF memchr(available) > 0
  THEN Decide(buf \o UpTo(available, memchr(available)), From(available, memchr(available)),
              atomic_parse(buf \o UpTo(available, memchr(available))))
  ELSE /\ buf' = buf \o available
       /\ rbuf' = ""
       /\ UNCHANGED <<msgs, res, op>>

\* reader.read_until(b'\n', &mut buf)? goes on: from what the reader read
\* ahead, or from what it now reads off the stream
ReadUntil ==
  /\ op = "reading"
  /\ \/ /\ rbuf # ""
        /\ Extend(rbuf)
        /\ UNCHANGED wire
     \/ /\ rbuf = ""
        /\ \E k \in ChunkSizes(Len(wire)) :
             /\ wire' = From(wire, k)
             /\ Extend(UpTo(wire, k))
  /\ UNCHANGED <<frames, frag, held, cmd, out, calls, sent, peer>>

\* the stream is at its end: the read gives 0 bytes, read_until returns
\* Ok with buf as it was, and the loop tries atomic_parse on it again
ReadEof ==
  /\ op = "reading"
  /\ rbuf = ""
  /\ wire = ""
  /\ peer = "closed"
  /\ Decide(buf, "", atomic_parse(buf))
  /\ UNCHANGED <<frames, frag, held, cmd, out, calls, sent, wire, peer>>

\* the replies of the beanstalkd protocol to a command
Replies(c) ==
  CASE c.tag = "Put" -> {Inserted("5"), Buried(Some("5")), Unit("JobTooBig")}
    [] c.tag = "Delete" -> {Unit("Deleted"), Unit("NotFound")}
    [] c.tag = "Reserve" -> {Reserved("42", "1\n1"), Reserved("5", ""), Unit("TimedOut")}
    [] c.tag = "Release" -> {Unit("Released"), Buried(None), Unit("NotFound")}

\* the peer has all of a command and writes its reply
Serve ==
  /\ peer = "open"
  /\ frag = ""
  /\ Len(frames) < Len(calls)
  /\ sent = EncodeAll(calls)
  /\ \E f \in Replies(calls[Len(frames) + 1]) :
       /\ frames' = Append(frames, f)
       /\ wire' = wire \o Wire(f)
  /\ UNCHANGED <<frag, buf, held, msgs, res, cmd, out, op, calls, sent, rbuf, peer>>

\* bytes that are no reply frame, and not the beginning of one
Garbage == {"X\r\n", "INSERTED x\r\n"}

\* the peer writes such bytes where a reply is due
PeerGarbage ==
  /\ peer = "open"
  /\ frag = ""
  /\ Len(frames) < Len(calls)
  /\ sent = EncodeAll(calls)
  /\ \E g \in Garbage :
       /\ frag' = g
       /\ wire' = wire \o g
  /\ UNCHANGED <<frames, buf, held, msgs, res, cmd, out, op, calls, sent, rbuf, peer>>

\* the peer shuts the stream; what it wrote before still arrives
PeerClose ==
  /\ peer = "open"
  /\ peer' = "closed"
  /\ UNCHANGED <<frames, frag, buf, held, msgs, res, cmd, out, op, calls, sent, wire, rbuf>>

InitClient ==
  /\ frames = <<>>
  /\ frag = ""
  /\ buf = ""
  /\ held = <<>>
  /\ msgs = <<>>
  /\ res = NoCall
  /\ cmd = NoCmd
  /\ out = ""
  /\ op = "idle"
  /\ NoClient

NextClient ==
  \/ Put
  \/ Delete
  \/ Reserve
  \/ Release
  \/ ReadUntil
  \/ ReadEof
  \/ Serve
  \/ PeerGarbage
  \/ PeerClose

SpecClient == InitClient /\ [][NextClient]_vars

\* the client's thread runs, and a peer that is to reply does so unless it
\* writes something else or shuts the stream first
SpecClientFair ==
  /\ InitClient
  /\ [][NextClient]_vars
  /\ WF_vars(ReadUntil)
  /\ WF_vars(ReadEof)
  /\ WF_vars(Serve)

----------------------------------------------------------------------------
(* Reading a wire line back, for the properties below *)

Min(a, b) == IF a < b THEN a ELSE b

\* the index of the first CR LF of s at or after i, 0 when there is none
RECURSIVE FirstCrlf(_, _)
FirstCrlf(s, i) ==
  IF i >= Len(s) THEN 0
  ELSE IF SubSeq(s, i, i + 1) = CRLF THEN i
  ELSE FirstCrlf(s, i + 1)

\* the fields of a line: the stretches between its spaces
RECURSIVE Fields(_)
Fields(s) ==
  LET k == Run(s, {" "}, FALSE, 0) IN
    IF k = Len(s) THEN <<s>> ELSE <<UpTo(s, k)>> \o Fields(From(s, k + 1))

\* a decimal numeral as format!("{}") writes one
IsNumeral(t) == Len(t) > 0 /\ Bytes(t) \subseteq Digits /\ (Len(t) > 1 => At(t, 1) # "0")

\* the verb the protocol documents for a command
Verb(tag) ==
  CASE tag = "Put" -> "put"
    [] tag = "Use" -> "use"
    [] tag = "Reserve" -> "reserve"
    [] tag = "ReserveJob" -> "reserve-job"
    [] tag = "ReserveTimeout" -> "reserve-with-timeout"
    [] tag = "Delete" -> "delete"
    [] tag = "Release" -> "release"
    [] tag = "Bury" -> "bury"
    [] tag = "Touch" -> "touch"
    [] tag = "Watch" -> "watch"
    [] tag = "Ignore" -> "ignore"
    [] tag = "Peek" -> "peek"
    [] tag = "PeekReady" -> "peek-ready"
    [] tag = "PeekDelayed" -> "peek-delayed"
    [] tag = "PeekBuried" -> "peek-buried"
    [] tag = "Kick" -> "kick"
    [] tag = "KickJob" -> "kick-job"
    [] tag = "StatsJob" -> "stats-job"
    [] tag = "StatsTube" -> "stats-tube"
    [] tag = "Stats" -> "stats"
    [] tag = "ListTubes" -> "list-tubes"
    [] tag = "ListTubeUsed" -> "list-tube-used"
    [] tag = "ListTubesWatched" -> "list-tubes-watched"
    [] tag = "Quit" -> "quit"
    [] tag = "PauseTube" -> "pause-tube"

Num(n) == [num |-> TRUE, n |-> n, s |-> ""]

Text(t) == [num |-> FALSE, n |-> 0, s |-> t]

\* the arguments of a command in the order the protocol documents
ProtocolArgs(c) ==
  CASE c.tag \in {"Use", "Watch", "Ignore", "StatsTube"} -> <<Text(c.tube)>>
    [] c.tag \in {"ReserveJob", "Delete", "Touch", "Peek", "KickJob", "StatsJob"} -> <<Num(c.id)>>
    [] c.tag = "ReserveTimeout" -> <<Num(c.secs)>>
    [] c.tag = "Kick" -> <<Num(c.bound)>>
    [] c.tag = "Release" -> <<Num(c.id), Num(c.pri), Num(c.delay)>>
    [] c.tag = "Bury" -> <<Num(c.id), Num(c.pri)>>
    [] c.tag = "PauseTube" -> <<Text(c.tube), Num(c.delay)>>
    [] OTHER -> <<>>

\* a field of a line stands for an argument
FieldIs(field, arg) ==
  IF arg.num THEN IsNumeral(field) /\ NatOf(field) = arg.n ELSE field = arg.s

\* the proper prefixes of the valid frames
FramePrefixes == ProperPrefixes(RichFrames \cup StreamFrames)

\* b begins like a reply keyword: one of them is a prefix of the other
KeywordStart(b) ==
  \E t \in AllTags :
    UpTo(b, Min(Len(b), Len(Keyword(t)))) = UpTo(Keyword(t), Min(Len(b), Len(Keyword(t))))

Range(f) == {f[i] : i \in DOMAIN f}

\* the recognizers that accept b
Matching(b) == {r \in Range(AtomicOrder) : Recognize(r, b).isOk}

Reversed(order) == [i \in 1..Len(order) |-> order[Len(order) + 1 - i]]

----------------------------------------------------------------------------
(* The encoder's properties, under SpecEncode *)

\* C1: an encoded Cmd::Put is the header "put <pri> <delay> <ttr> <len>\r\n",
\* the payload bytes unmodified, and "\r\n"; <len> is the payload's byte
\* count, the closing CRLF not counted.  The header ends at the first CR LF
\* of the output, whatever the payload holds.
C1_PutFraming ==
  (op = "encode" /\ cmd.tag = "Put") =>
    LET h == FirstCrlf(out, 1)
        fields == Fields(UpTo(out, h - 1))
    IN /\ h > 0
       /\ Len(fields) = 5
       /\ fields[1] = "put"
       /\ FieldIs(fields[2], Num(cmd.pri))
       /\ FieldIs(fields[3], Num(cmd.delay))
       /\ FieldIs(fields[4], Num(cmd.ttr))
       /\ FieldIs(fields[5], Num(Len(cmd.payload)))
       /\ From(out, h + 1) = cmd.payload \o CRLF

\* C1 witness: a put whose payload holds CR LF has been encoded
C1_Witness ==
  /\ op = "encode"
  /\ cmd = [tag |-> "Put", pri |-> 7, delay |-> 0, ttr |-> 60, payload |-> "\r\n1"]
  /\ out = "put 7 0 60 3\r\n\r\n1\r\n"

\* C2: every command other than Put encodes to its verb and its arguments in
\* protocol order, separated by single spaces, ended by CR LF.
C2_CommandLine ==
  (op = "encode" /\ cmd.tag # "Put") =>
    LET line == UpTo(out, Len(out) - 2)
        fields == Fields(line)
        args == ProtocolArgs(cmd)
    IN /\ Len(out) >= 2
       /\ From(out, Len(out) - 2) = CRLF
       /\ Bytes(line) \cap {"\r", "\n"} = {}
       /\ Len(fields) = 1 + Len(args)
       /\ fields[1] = Verb(cmd.tag)
       /\ \A i \in 1..Len(args) : FieldIs(fields[i + 1], args[i])

\* C2 witness: a release has been encoded as "release <id> <pri> <delay>"
C2_Witness ==
  /\ op = "encode"
  /\ cmd = [tag |-> "Release", id |-> 42, pri |-> 7, delay |-> 60]
  /\ out = "release 42 7 60\r\n"

----------------------------------------------------------------------------
(* The decoder's properties, under Spec *)

\* C3: a RESERVED or OK reply decodes to the payload of exactly the announced
\* length, the bytes after the header's CR LF whatever they are, then a CR LF:
\* a valid frame decodes to its own payload and leaves what follows it, and
\* every decoded payload is the announced count of bytes after the header.
C3_PayloadByCount ==
  op = "atomic_parse" =>
    /\ (frames # <<>> /\ frames[1].tag \in {"Reserved", "Ok"}) =>
         /\ res.isOk
         /\ res.val = frames[1]
         /\ res.rest = WireAll(Tail(frames)) \o frag
    /\ (res.isOk /\ res.val.tag \in {"Reserved", "Ok"}) =>
         LET h == FirstCrlf(buf, 1)
             fields == Fields(UpTo(buf, h - 1))
             announced == NatOf(fields[Len(fields)])
             data == res.val.args[Len(res.val.args)]
         IN /\ Len(data) = announced
            /\ data = SubSeq(buf, h + 2, h + 1 + announced)
            /\ SubSeq(buf, h + 2 + announced, h + 3 + announced) = CRLF
            /\ res.rest = From(buf, h + 3 + announced)

\* C3 witness: a reply announcing 4 bytes whose payload is CR LF CR LF has
\* been decoded to that payload
C3_Witness ==
  /\ op = "atomic_parse"
  /\ buf = "RESERVED 42 4\r\n\r\n\r\n\r\n"
  /\ res = Ok("", Reserved("42", "\r\n\r\n"))

\* C4 (as claimed): a buffer that is one or more complete valid frames is
\* drained by parse to Ok with an empty remainder and one message per frame,
\* appended in frame order.
C4_DrainsValidFrames ==
  (op = "parse" /\ frames # <<>> /\ frag = "") =>
    /\ res.isOk
    /\ res.rest = ""
    /\ msgs = held \o frames

\* C5 (as claimed): complete valid frames followed by a proper prefix of a
\* valid frame: parse appends every complete message in order and fails with
\* exactly the fragment as remainder.
C5_FragmentIsRemainder ==
  (op = "parse" /\ frag \in FramePrefixes) =>
    /\ ~res.isOk
    /\ res.rest = frag
    /\ msgs = held \o frames

\* C6 (as claimed): decoding one message from a proper prefix of a valid
\* frame fails with the EOF kind and the full input as remainder.
C6_PrefixIsEof ==
  (op = "atomic_parse" /\ frames = <<>> /\ frag \in FramePrefixes) =>
    /\ ~res.isOk
    /\ res.kind = "EOF"
    /\ res.rest = buf

\* C7: a buffer whose leading bytes are not the start of any reply keyword
\* fails with NotMatched, the whole input as remainder, and no message.
C7_GarbageNotMatched ==
  (op = "atomic_parse" /\ ~KeywordStart(buf)) =>
    /\ ~res.isOk
    /\ res.kind = "NotMatched"
    /\ res.rest = buf
    /\ res.val = Nothing

\* C7 witness: "GARBAGE\r\n" has been handed to atomic_parse
C7_Witness ==
  /\ op = "atomic_parse"
  /\ buf = "GARBAGE\r\n"
  /\ res = Err("GARBAGE\r\n", "NotMatched")

\* C8 (as claimed): the failure of parse tells the two cases apart by its
\* kind: a remainder that is a proper prefix of a valid frame is EOF, a
\* non-empty remainder that is no prefix of a valid frame is NotMatched.
C8_KindTellsApart ==
  (op = "parse" /\ ~res.isOk) =>
    /\ res.rest \in FramePrefixes => res.kind = "EOF"
    /\ (res.rest # "" /\ res.rest \notin FramePrefixes) => res.kind = "NotMatched"

\* C9: at most one of the 23 recognizers accepts a buffer, and trying them
\* in the opposite order gives the result atomic_parse gave.
C9_Unambiguous ==
  op = "atomic_parse" =>
    /\ Cardinality(Matching(buf)) <= 1
    /\ Alternation(Reversed(AtomicOrder), buf, 1) = res

\* C9 witness: a line with the keyword two recognizers share has been
\* decoded, and one of the two accepted it
C9_Witness ==
  /\ op = "atomic_parse"
  /\ buf = "TOUCHED 5\r\n"
  /\ res.isOk
  /\ Matching(buf) = {"watching"}

\* C10 (as claimed): "WATCHING <count>\r\n" decodes to Watching(count), and
\* only a line that begins with WATCHING decodes to a Watching message.
C10_WatchingKeyword ==
  op = "atomic_parse" =>
    /\ (frames # <<>> /\ frames[1].tag = "Watching") => (res.isOk /\ res.val = frames[1])
    /\ (res.isOk /\ res.val.tag = "Watching") => UpTo(buf, Len("WATCHING ")) = "WATCHING "

\* C11 (as claimed): "FOUND <id> <bytes>\r\n<data>\r\n" decodes to
\* Found(id, data) and leaves the bytes after the final CR LF.
C11_FoundDecodes ==
  (op = "atomic_parse" /\ frames # <<>> /\ frames[1].tag = "Found") =>
    /\ res.isOk
    /\ res.val = frames[1]
    /\ res.rest = WireAll(Tail(frames)) \o frag

\* the bytes of s begin with those of p
StartsWith(s, p) == Len(s) >= Len(p) /\ UpTo(s, Len(p)) = p

\* s begins with a digit run that fits 64 bits, followed by CR LF
IntegerThenCrlf(s) ==
  LET k == Run(s, Digits, TRUE, 0) IN
    k > 0 /\ FitsU64(UpTo(s, k)) /\ StartsWith(From(s, k), CRLF)

\* C12: "BURIED <n>\r\n" and "KICKED <n>\r\n" decode to the Some variant,
\* the bare "BURIED\r\n" and "KICKED\r\n" to None; and once the keyword is
\* followed by a space, the recognizer succeeds only when an integer and
\* CR LF follow, and then with Some: a missing or malformed integer is a
\* failure, never the None variant.
C12_OptionalSuffix ==
  op = "atomic_parse" =>
    /\ (frames # <<>> /\ frames[1].tag \in {"Buried", "Kicked"}) =>
         /\ res.isOk
         /\ res.val = frames[1]
         /\ res.rest = WireAll(Tail(frames)) \o frag
    /\ \A t \in {"Buried", "Kicked"} :
         StartsWith(buf, Keyword(t) \o " ") =>
           IF IntegerThenCrlf(From(buf, Len(Keyword(t)) + 1))
           THEN /\ res.isOk
                /\ res.val.tag = t
                /\ res.val.args[1] = "Some"
           ELSE /\ ~Recognize(IF t = "Buried" THEN "buried" ELSE "kicked", buf).isOk
                /\ ~res.isOk

\* C12 witness: "BURIED \r\n", the space with no integer after it, has been
\* handed to the decoder and was not decoded
C12_Witness ==
  /\ op = "atomic_parse"
  /\ buf = "BURIED \r\n"
  /\ ~Recognize("buried", buf).isOk
  /\ ~res.isOk

\* C13: a keyword-only reply (the server's error and status replies),
\* followed by CR LF and any rest, decodes to its own message variant and
\* leaves the rest.
C13_StatusRepliesDecode ==
  (op = "atomic_parse" /\ frames # <<>> /\ frames[1].tag \in UnitTags) =>
    /\ StartsWith(buf, Keyword(frames[1].tag) \o CRLF)
    /\ res.isOk
    /\ res.val = Unit(frames[1].tag)
    /\ res.rest = From(buf, Len(Keyword(frames[1].tag)) + 2)

\* C13 witness: OUT_OF_MEMORY followed by more bytes has been decoded to
\* the OutOfMemory message
C13_Witness ==
  /\ op = "atomic_parse"
  /\ buf = "OUT_OF_MEMORY\r\nIN"
  /\ res = Ok("IN", Unit("OutOfMemory"))

\* the overflowing replies among the inputs
Overflowing ==
  {"INSERTED 99999999999999999999\r\n", "INSERTED 18446744073709551616\r\n",
   "BURIED 99999999999999999999\r\n", "KICKED 18446744073709551616\r\n"}

\* C16 (as claimed): a reply with a valid keyword and framing whose integer
\* does not fit 64 bits makes atomic_parse and parse fail with the Integer
\* kind.
C16_OverflowIsIntegerError ==
  (frag \in Overflowing /\ (op = "parse" \/ (op = "atomic_parse" /\ frames = <<>>))) =>
    /\ ~res.isOk
    /\ res.kind = "Integer"

----------------------------------------------------------------------------
(* The primitive matchers' properties, under SpecMatch *)

PrimitiveMatchers ==
  {"char", "chars", "crlf", "space", "lf", "take", "take_while", "take_until",
   "u64", "bool", "number"}

\* C14 (as claimed): a primitive matcher that fails returns the input it
\* was given as the error remainder.
C14_FailureKeepsInput ==
  (op \in PrimitiveMatchers /\ ~res.isOk) => res.rest = buf

\* the length of the maximal leading run of digits of s
DigitRun(s) ==
  CHOOSE k \in 0..Len(s) :
    /\ \A i \in 1..k : At(s, i) \in Digits
    /\ k < Len(s) => At(s, k + 1) \notin Digits

\* the numeral a denotes a greater number than the numeral b (neither with
\* leading zeros)
NumeralGreater(a, b) ==
  \/ Len(a) > Len(b)
  \/ /\ Len(a) = Len(b)
     /\ \E i \in 1..Len(a) :
          UpTo(a, i - 1) = UpTo(b, i - 1) /\ DigitVal(At(a, i)) > DigitVal(At(b, i))

\* C15: u64 consumes the maximal leading digit run; a run of value at most
\* 2^64-1 gives that value and the rest of the input, a greater one fails
\* with the Integer kind and the original input, never with a value.
C15_U64MaximalRun ==
  (op = "u64" /\ DigitRun(buf) > 0) =>
    LET k == DigitRun(buf)
        run == Canonical(UpTo(buf, k))
    IN IF NumeralGreater(run, "18446744073709551615")
       THEN res = Err(buf, "Integer")
       ELSE /\ res.isOk
            /\ res.rest = From(buf, k)
            /\ res.val = run
            /\ Len(run) <= 9 => NatOf(res.val) = NatOf(UpTo(buf, k))

\* C15 witness: the digit run 2^64 has been handed to u64 and was refused
\* with the Integer kind
C15_Witness ==
  /\ op = "u64"
  /\ buf = "18446744073709551616"
  /\ res = Err("18446744073709551616", "Integer")

----------------------------------------------------------------------------
(* The YAML decoders' properties, under SpecYaml *)

\* the document is the header and "key: value" lines only
IsMapDoc == frag = "" /\ \A i \in 1..Len(frames) : ~frames[i].list

\* the document is the header and " - value" lines only
IsListDoc == frag = "" /\ \A i \in 1..Len(frames) : frames[i].list

AllDigits(t) == Len(t) > 0 /\ Bytes(t) \subseteq Digits

\* digits '.' digits
IsFloatLiteral(t) ==
  \E d \in 2..(Len(t) - 1) :
    At(t, d) = "." /\ AllDigits(UpTo(t, d - 1)) /\ AllDigits(From(t, d))

\* the scalar kind a value token has by its form
KindOf(t) ==
  IF t \in {"true", "false"} THEN "Bool"
  ELSE IF AllDigits(t) THEN "Integer"
  ELSE IF IsFloatLiteral(t) THEN "Float"
  ELSE "String"

\* C17 (as claimed): a document of the header and "key: value" lines
\* decodes with an empty remainder to a map with one entry per distinct key,
\* the value a boolean for true and false, an unsigned integer for a digit
\* run, a float for digits '.' digits, and text for any other alphanumeric
\* token.
C17_MapDecodes ==
  (op = "yaml_map" /\ IsMapDoc) =>
    /\ res.isOk
    /\ res.rest = ""
    /\ DOMAIN res.val = {frames[i].key : i \in 1..Len(frames)}
    /\ \A k \in DOMAIN res.val :
         \E i \in 1..Len(frames) :
           /\ frames[i].key = k
           /\ res.val[k].tag = KindOf(frames[i].value)
           /\ KindOf(frames[i].value) \in {"Bool", "String"} => res.val[k].args = <<frames[i].value>>
           /\ KindOf(frames[i].value) = "Integer" => res.val[k].args = <<Canonical(frames[i].value)>>

\* C18: in the map a document decodes to, a key that occurs on several
\* lines has one entry, with the value of its last line; the other keys
\* have the value of their own last line.
C18_LastWriteWins ==
  (op = "yaml_map" /\ IsMapDoc /\ res.isOk) =>
    /\ DOMAIN res.val = {frames[i].key : i \in 1..Len(frames)}
    /\ \A i \in 1..Len(frames) :
         (\A j \in (i + 1)..Len(frames) : frames[j].key # frames[i].key) =>
           res.val[frames[i].key] = scalar(frames[i].value).val

\* C18 witness: a document with the key a on its first and last line has
\* been decoded, and a has the value of the last one
C18_Witness ==
  /\ op = "yaml_map"
  /\ buf = "---\na: 42\nb: true\na: HelloWorld\n"
  /\ res.isOk
  /\ DOMAIN res.val = {"a", "b"}
  /\ res.val["a"] = ScalarString("HelloWorld")
  /\ res.val["b"] = ScalarBool("true")

\* C19: a document of the header and " - value" lines decodes to the
\* values in document order, one element per line, repeated values kept,
\* with an empty remainder.
C19_ListInOrder ==
  (op = "yaml_list" /\ IsListDoc) =>
    /\ res.isOk
    /\ res.rest = ""
    /\ res.val = [i \in 1..Len(frames) |-> frames[i].value]

\* C19 witness: a list that repeats a value has been decoded with both
\* occurrences, in order
C19_Witness ==
  /\ op = "yaml_list"
  /\ buf = "---\n - hello\n - world\n - hello\n"
  /\ res = Ok("", <<"hello", "world", "hello">>)

----------------------------------------------------------------------------
(* The name check's property, under SpecName *)

NameLetters == Bytes("ABCDEFGHIJKLMNOPQRSTUVWXYZabcdefghijklmnopqrstuvwxyz")

NameSpecials == Bytes("+/;.$_()")

----------------------------------------------------------------------------
(* Further properties of the decoder, under Spec *)

\* C21: when parse fails, the remainder is a suffix of the input that
\* begins at a frame atomic_parse cannot decode; the bytes before it are
\* exactly the wire frames of the messages appended, in order, and decode to
\* them; nothing at or after the failure point has produced a message.
C21_StopsAtFailure ==
  (op = "parse" /\ ~res.isOk) =>
    LET n == Len(msgs) - Len(held)
        cut == Len(buf) - Len(res.rest)
    IN /\ cut >= 0
       /\ From(buf, cut) = res.rest
       /\ res.rest # ""
       /\ ~atomic_parse(res.rest).isOk
       /\ n >= 0
       /\ SubSeq(msgs, 1, Len(held)) = held
       /\ UpTo(buf, cut) = WireAll(SubSeq(msgs, Len(held) + 1, Len(msgs)))
       /\ n <= Len(frames)
       /\ SubSeq(msgs, Len(held) + 1, Len(msgs)) = SubSeq(frames, 1, n)

\* C21 witness: a valid frame, then garbage, then another valid frame:
\* parse has appended the first message only and returned the bytes from
\* the garbage on
C21_Witness ==
  /\ op = "parse"
  /\ buf = "DELETED\r\nGARBAGE\r\nDELETED\r\n"
  /\ msgs = held \o <<Unit("Deleted")>>
  /\ res = Err("GARBAGE\r\nDELETED\r\n", "NotMatched")

IsUtf8(t) == Bytes(t) \cap NonUtf8 = {}

\* C26 (as claimed): a USING reply whose name is not valid UTF-8 fails with
\* the NotUTF8 kind, and no Using message holds text that is not UTF-8.
C26_NameIsUtf8 ==
  op = "atomic_parse" =>
    /\ (frames = <<>> /\ frag \in BadText) => (~res.isOk /\ res.kind = "NotUTF8")
    /\ (res.isOk /\ res.val.tag = "Using") => IsUtf8(res.val.args[1])

----------------------------------------------------------------------------
(* Further properties of the matchers, under SpecMatch *)

\* the float a digits '.' digits literal denotes: its integer part without
\* leading zeros and its fraction as written, without trailing zeros
Denoted(t) ==
  LET d == CHOOSE d \in 1..Len(t) : At(t, d) = "."
  IN Canonical(UpTo(t, d - 1)) \o "." \o Fraction(From(t, d))

\* C22 (as claimed): number decodes a digits '.' digits literal to the float
\* the literal denotes, the leading zeros of the fraction kept.
C22_FloatAsWritten ==
  (op = "number" /\ IsFloatLiteral(buf)) =>
    /\ res.isOk
    /\ res.rest = ""
    /\ res.val = ScalarFloat(Denoted(buf))

----------------------------------------------------------------------------
(* Further properties of the YAML decoders, under SpecYaml *)

\* the line is the last one of its key
LastOfKey(i) == \A j \in (i + 1)..Len(frames) : frames[j].key # frames[i].key

\* C23 (as claimed): a value token that is neither a boolean literal nor a
\* number decodes as text holding the whole token, and the document decodes.
C23_TextFallback ==
  (op = "yaml_map" /\ IsMapDoc) =>
    \A i \in 1..Len(frames) :
      KindOf(frames[i].value) = "String" =>
        /\ res.isOk
        /\ LastOfKey(i) => res.val[frames[i].key] = ScalarString(frames[i].value)

\* a digit run whose value does not fit 64 bits
Overflows(t) == AllDigits(t) /\ NumeralGreater(Canonical(t), "18446744073709551615")

\* C24 (as claimed): a value that begins with a digit and fails the numeric
\* parse makes the document fail with the Integer or Float kind.
C24_NumericCommit ==
  (op = "yaml_map" /\ IsMapDoc /\ \E i \in 1..Len(frames) : Overflows(frames[i].value)) =>
    /\ ~res.isOk
    /\ res.kind \in {"Integer", "Float"}

----------------------------------------------------------------------------
(* Further properties of the name check, under SpecName *)

\* [A-Za-z0-9+/;?$_()]
MessageStart == NameLetters \cup Digits \cup Bytes("+/;?$_()")

\* C25 (as claimed): validate_name accepts exactly the names the message of
\* InvalidName documents, [A-Za-z0-9+/;?$_()][A-Za-z0-9-+/;?$_()]*.
C25_NameAsDocumented ==
  op = "validate_name" =>
    (res.isOk <=>
       /\ Len(buf) > 0
       /\ At(buf, 1) \in MessageStart
       /\ \A i \in 2..Len(buf) : At(buf, i) \in MessageStart \cup {"-"})

----------------------------------------------------------------------------
(* The loop of parse, under SpecLoop *)

\* C27: parse returns on every buffer: each turn of its loop either returns
\* or leaves a shorter buf, so the messages appended and the bytes left
\* never add up to more than the bytes of the input.
C27_ParseTerminates ==
  /\ <>(op = "parse")
  /\ [](Len(msgs) - Len(held) + Len(buf) <= Len(WireAll(frames) \o frag))
  /\ [][op' = "parse" \/ Len(buf') < Len(buf)]_vars

\* C27 witness: the loop has returned after a turn for each of two frames
C27_Witness ==
  /\ op = "parse"
  /\ Len(frames) = 2
  /\ frag = ""
  /\ buf = ""
  /\ msgs = held \o frames
  /\ res = Ok("", UnitVal)

----------------------------------------------------------------------------
(* The client, under SpecClient and SpecClientFair *)

\* C28: requests and replies alternate.  While the peer has written reply
\* frames only, the i-th Msg a client operation returned on is the i-th
\* frame the peer wrote; no byte the peer wrote is lost or read twice; an
\* operation that has returned has written the whole of its command, has
\* used up exactly its own reply, and its result is made of that reply.
C28_Alternation ==
  frag = "" =>
    /\ Len(frames) <= Len(calls)
    /\ Len(msgs) <= Len(frames)
    /\ \A i \in 1..Len(msgs) : msgs[i] = frames[i]
    /\ WireAll(frames) = WireAll(msgs) \o buf \o rbuf \o wire
    /\ op = "reading" => Len(msgs) = Len(calls) - 1
    /\ op = "idle" =>
         /\ Len(msgs) = Len(calls)
         /\ sent = EncodeAll(calls)
         /\ calls # <<>> => res = Answer(calls[Len(calls)], frames[Len(calls)])

\* C28 witness: a reserve has returned the job of a RESERVED frame whose
\* payload holds an LF, and the operation after it has returned on its own
\* reply
C28_Witness ==
  /\ op = "idle"
  /\ frag = ""
  /\ Len(calls) = 2
  /\ calls[1] = ReserveCmd
  /\ frames[1] = Reserved("42", "1\n1")
  /\ msgs = frames
  /\ calls[2] = DeleteCmd(42)
  /\ res = Done(UnitVal)

\* C29: handle_response returns.  Once the peer has shut the stream, or has
\* written bytes that are no reply frame, the operation that is reading
\* comes to an end.
C29_ResponseReturns == (op = "reading" /\ (peer = "closed" \/ frag # "")) ~> (op = "idle")

\* C30: an operation that waits for its reply has handed the whole of its
\* command, and of the commands before it, to the stream.
C30_WholeCommandSent == op = "reading" => sent = EncodeAll(calls)

====
